---- MODULE Spec2Model ----
(***************************************************************************)
(* Wind-turbine performance monitoring: the cleaning pipeline              *)
(* (ingestion/cleaning.py), the historical baseline (persistence/crud.py), *)
(* the daily anomaly detector (analysis/anomaly_detection.py) and the      *)
(* pipeline run (ingestion_db_pipeline.py).                                *)
(*                                                                         *)
(* A DataFrame is a sequence of rows; a row is a record with the five      *)
(* columns of ingestion/validation.py.  A cell is <<>> when it is null     *)
(* (NaN / NaT / None) and <<v>> when it holds the value v.  Sensor values  *)
(* are integers; every comparison against a mean and a standard deviation  *)
(* is carried out exactly on (count, sum, sum of squares), so the model    *)
(* follows the real-number meaning of the float64 code.                    *)
(***************************************************************************)
EXTENDS Integers, Sequences, FiniteSets, TLC

VARIABLES
    df,         \* the DataFrame handed to the operation under study
    arg,        \* the other arguments of the call (limits, action, dates)
    out,        \* what the call returned
    again,      \* what the same call returned when re-applied to out
    pc,         \* "ready" | "called" | "recalled" | "raised"
    store,      \* the database: committed rows of the three tables
    run         \* bookkeeping of the last pipeline run

vars == <<df, arg, out, again, pc, store, run>>

----------------------------------------------------------------------------
(* Cells *)

Null == <<>>
Some(v) == <<v>>
IsNull(x) == x = Null
Val(x) == x[1]

(* ingestion/validation.py *)
SENSOR_COLUMNS == <<"wind_speed", "wind_direction", "power_output">>
SensorSet == {SENSOR_COLUMNS[i] : i \in 1..Len(SENSOR_COLUMNS)}

(* config/constants.py *)
OUTLIER_STD_THRESHOLD == 3

SENSOR_LIMITS ==
    [wind_speed     |-> [min |-> Some(0), max |-> Some(100)],
     wind_direction |-> [min |-> Some(0), max |-> Some(360)],
     power_output   |-> [min |-> Some(0), max |-> Null]]

(* the literal of group[col].ffill(limit=2) *)
FFILL_LIMIT == 2

Row(ts, tid, ws, wd, po) ==
    [timestamp |-> ts, turbine_id |-> tid, wind_speed |-> ws,
     wind_direction |-> wd, power_output |-> po]

Key(r) == <<r.timestamp, r.turbine_id>>

----------------------------------------------------------------------------
(* DataFrame helpers: boolean-mask selection, stable sort, group keys *)

\* df[mask]: the rows at the index set I, in their order
RECURSIVE PickFrom(_, _, _)
PickFrom(s, I, i) ==
    IF i > Len(s) THEN <<>>
    ELSE IF i \in I THEN <<s[i]>> \o PickFrom(s, I, i + 1)
    ELSE PickFrom(s, I, i + 1)

Pick(s, I) == PickFrom(s, I, 1)

Rows(s) == {s[i] : i \in 1..Len(s)}

RECURSIVE Concat(_)
Concat(ss) ==
    IF ss = <<>> THEN <<>> ELSE Head(ss) \o Concat(Tail(ss))

\* the distinct non-null turbine ids, ascending (groupby sorts its keys and
\* leaves out the rows whose key is null)
TurbineIds(s) == {Val(s[i].turbine_id) : i \in {j \in 1..Len(s) : ~IsNull(s[j].turbine_id)}}

SortedSeq(S) ==
    [k \in 1..Cardinality(S) |-> CHOOSE x \in S : Cardinality({y \in S : y < x}) = k - 1]

Group(s, t) == Pick(s, {i \in 1..Len(s) : s[i].turbine_id = Some(t)})

----------------------------------------------------------------------------
(* remove_duplicates: drop_duplicates(subset=[timestamp, turbine_id]) keeps
   the first row of every key; null cells compare equal to each other *)

\* drop_duplicates(keep=False): every row of a repeated key goes
remove_duplicates_keep_none(d) ==
    Pick(d, {i \in 1..Len(d) : \A j \in 1..Len(d) : Key(d[j]) = Key(d[i]) => j = i})

remove_duplicates(d) ==
    Pick(d, {i \in 1..Len(d) : \A j \in 1..(i - 1) : Key(d[j]) # Key(d[i])})

----------------------------------------------------------------------------
(* handle_missing_values *)

dropna(d, cols) ==
    Pick(d, {i \in 1..Len(d) : \A c \in cols : ~IsNull(d[i][c])})

\* the order of sort_values(["turbine_id", "timestamp"]) on rows whose keys
\* are not null
KeyBefore(a, b) ==
    \/ Val(a.turbine_id) < Val(b.turbine_id)
    \/ /\ a.turbine_id = b.turbine_id
       /\ Val(a.timestamp) < Val(b.timestamp)

\* rows of equal key keep their order: r goes behind every row that is not
\* after it
RECURSIVE sort_values(_)
sort_values(d) ==
    IF d = <<>> THEN <<>>
    ELSE LET s == sort_values(SubSeq(d, 1, Len(d) - 1))
             r == d[Len(d)]
             k == Cardinality({j \in 1..Len(s) : ~KeyBefore(r, s[j])})
         IN SubSeq(s, 1, k) \o <<r>> \o SubSeq(s, k + 1, Len(s))

\* Series.ffill(limit): a scan that carries the last valid value and the
\* number of cells filled since it
RECURSIVE PadScan(_, _)
PadScan(s, limit) ==
    IF s = <<>>
    THEN [filled |-> <<>>, last |-> Null, cnt |-> 0]
    ELSE LET p == PadScan(SubSeq(s, 1, Len(s) - 1), limit)
             x == s[Len(s)]
         IN IF ~IsNull(x)
            THEN [filled |-> Append(p.filled, x), last |-> x, cnt |-> 0]
            ELSE IF ~IsNull(p.last) /\ p.cnt < limit
                 THEN [filled |-> Append(p.filled, p.last), last |-> p.last,
                       cnt |-> p.cnt + 1]
                 ELSE [filled |-> Append(p.filled, Null), last |-> p.last,
                       cnt |-> p.cnt]

\* ffill() with the limit left out: every missing cell after an observation is filled
ffill_unbounded(s, limit) == PadScan(s, Len(s)).filled

ffill(s, limit) == PadScan(s, limit).filled

Column(g, c) == [i \in 1..Len(g) |-> g[i][c]]

fill_missing_sensor_data(g) ==
    LET ws == ffill(Column(g, "wind_speed"), FFILL_LIMIT)
        wd == ffill(Column(g, "wind_direction"), FFILL_LIMIT)
        po == ffill(Column(g, "power_output"), FFILL_LIMIT)
    IN [i \in 1..Len(g) |->
          Row(g[i].timestamp, g[i].turbine_id, ws[i], wd[i], po[i])]

\* groupby("turbine_id", group_keys=False).apply(f) when f keeps the rows of
\* every group: the groups in ascending key order
ApplyFill(d) ==
    LET ids == SortedSeq(TurbineIds(d))
    IN Concat([k \in 1..Len(ids) |-> fill_missing_sensor_data(Group(d, ids[k]))])

handle_missing_values(d) ==
    LET d1 == dropna(d, {"timestamp", "turbine_id"})
        d2 == sort_values(d1)
        d3 == ApplyFill(d2)
    IN dropna(d3, SensorSet)

----------------------------------------------------------------------------
(* clean_physical_limits *)

\* _check_within_limits: the mask of one cell; a comparison with a null
\* cell is false
\* the same with >= and <=: a value on a bound counts as outside
OutsideLimitsExclusive(x, limits) ==
    /\ ~IsNull(x)
    /\ \/ ~IsNull(limits.min) /\ Val(x) <= Val(limits.min)
       \/ ~IsNull(limits.max) /\ Val(x) >= Val(limits.max)

OutsideLimits(x, limits) ==
    /\ ~IsNull(x)
    /\ \/ ~IsNull(limits.min) /\ Val(x) < Val(limits.min)
       \/ ~IsNull(limits.max) /\ Val(x) > Val(limits.max)

\* sensor_limits maps some of the features to {min, max}
Violates(r, sensor_limits) ==
    \E f \in DOMAIN sensor_limits : OutsideLimits(r[f], sensor_limits[f])

clean_physical_limits(d, sensor_limits) ==
    Pick(d, {i \in 1..Len(d) : ~Violates(d[i], sensor_limits)})

----------------------------------------------------------------------------
(* detect_and_handle_outliers_statistically_std *)

RECURSIVE SumSeq(_)
SumSeq(s) == IF s = <<>> THEN 0 ELSE Head(s) + SumSeq(Tail(s))

\* the non-null values of a column (mean() and std() skip nulls)
Valid(col) ==
    LET I == {i \in 1..Len(col) : ~IsNull(col[i])}
        p == Pick(col, I)
    IN [k \in 1..Len(p) |-> Val(p[k])]

\* count, sum and sum of squares of a sequence of numbers: mean = sum / n and
\* the sample variance (ddof = 1) is (n * sumsq - sum^2) / (n * (n - 1))
Stats(xs) ==
    [n |-> Len(xs), sum |-> SumSeq(xs),
     sumsq |-> SumSeq([i \in 1..Len(xs) |-> xs[i] * xs[i]])]

\* mean() is null on no value, std() is null on fewer than two
MeanIsNull(st) == st.n = 0
StdIsNull(st) == st.n < 2

\* n * (n - 1) * variance
VarNum(st) == st.n * st.sumsq - st.sum * st.sum

\* the same with the strict comparisons of between(inclusive="neither")
BetweenExclusive(x, st, k) ==
    /\ ~IsNull(x)
    /\ ~MeanIsNull(st)
    /\ ~StdIsNull(st)
    /\ (st.n * Val(x) - st.sum) * (st.n * Val(x) - st.sum) * (st.n - 1)
          < k * k * st.n * VarNum(st)

\* x.between(mean - k * std, mean + k * std), bounds inclusive:
\* |x - mean| <= k * std, multiplied through by n^2 * (n - 1); false as soon
\* as x, the mean or the std is null
Between(x, st, k) ==
    /\ ~IsNull(x)
    /\ ~MeanIsNull(st)
    /\ ~StdIsNull(st)
    /\ (st.n * Val(x) - st.sum) * (st.n * Val(x) - st.sum) * (st.n - 1)
          <= k * k * st.n * VarNum(st)

\* mean and std_dev of _process_grp
GroupStats(g) == Stats(Valid(Column(g, "power_output")))

\* is_out against bounds of 2 standard deviations
IsOutTwoSigma(r, st) == ~Between(r.power_output, st, 2)

\* is_out were a null std_dev to leave every row inside the bounds
IsOutOnlyWithStd(r, st) ==
    ~StdIsNull(st) /\ ~Between(r.power_output, st, OUTLIER_STD_THRESHOLD)

\* is_out of _process_grp, for a row r of the group whose statistics are st
IsOut(r, st) == ~Between(r.power_output, st, OUTLIER_STD_THRESHOLD)

_process_grp(g, action) ==
    LET st == GroupStats(g)
    IN IF action = "flag"
       THEN [i \in 1..Len(g) |-> [row |-> g[i], is_outlier |-> IsOut(g[i], st)]]
       ELSE Pick(g, {i \in 1..Len(g) : ~IsOut(g[i], st)})

\* rows with a null turbine_id belong to no group
InGroups(d) == Pick(d, {i \in 1..Len(d) : ~IsNull(d[i].turbine_id)})

\* groupby("turbine_id", group_keys=False).apply(_process_grp): when every
\* group comes back with all its rows the result is put back in the order of
\* df, otherwise the groups are concatenated in ascending key order
detect_and_handle_outliers_statistically_std(d, action) ==
    LET kept == InGroups(d)
        ids == SortedSeq(TurbineIds(d))
        grp == [k \in 1..Len(ids) |-> Group(d, ids[k])]
        res == [k \in 1..Len(ids) |-> _process_grp(grp[k], action)]
    IN IF \A k \in 1..Len(ids) : Len(res[k]) = Len(grp[k])
       THEN [i \in 1..Len(kept) |->
               LET k == CHOOSE k \in 1..Len(ids) : kept[i].turbine_id = Some(ids[k])
                   j == Cardinality({h \in 1..i : kept[h].turbine_id = kept[i].turbine_id})
               IN res[k][j]]
       ELSE Concat(res)

Raises(action) == action \notin {"flag", "drop"}

----------------------------------------------------------------------------
(* clean_data: the four stages in their fixed order; Stages keeps every
   intermediate DataFrame *)

\* clean_data without its call of clean_physical_limits
StagesWithoutLimits(d, sensor_limits) ==
    LET s1 == remove_duplicates(d)
        s2 == handle_missing_values(s1)
        s4 == detect_and_handle_outliers_statistically_std(s2, "drop")
    IN [dedup |-> s1, missing |-> s2, limits |-> s2, outliers |-> s4]

\* clean_data were it to enforce the physical limits before it fills
StagesLimitsBeforeFill(d, sensor_limits) ==
    LET s1 == remove_duplicates(d)
        s2 == clean_physical_limits(s1, sensor_limits)
        s3 == handle_missing_values(s2)
        s4 == detect_and_handle_outliers_statistically_std(s3, "drop")
    IN [dedup |-> s1, missing |-> s3, limits |-> s3, outliers |-> s4]

Stages(d, sensor_limits) ==
    LET s1 == remove_duplicates(d)
        s2 == handle_missing_values(s1)
        s3 == clean_physical_limits(s2, sensor_limits)
        s4 == detect_and_handle_outliers_statistically_std(s3, "drop")
    IN [dedup |-> s1, missing |-> s2, limits |-> s3, outliers |-> s4]

clean_data(d, sensor_limits) == Stages(d, sensor_limits).outliers

----------------------------------------------------------------------------
(* Dates.  A timestamp counts sample slots, TicksPerDay to the day; a date
   is a day number, and a date compared with a timestamp stands for its
   midnight. *)

TicksPerDay == 10

DateOf(ts) == ts \div TicksPerDay
Midnight(d) == d * TicksPerDay

----------------------------------------------------------------------------
(* persistence/crud.py: load_historical_daily_totals_stats.  The table
   turbine_readings is a set of rows with plain (non-null) columns. *)

RECURSIVE SumPower(_)
SumPower(S) ==
    IF S = {} THEN 0
    ELSE LET r == CHOOSE r \in S : TRUE
         IN r.power_output + SumPower(S \ {r})

\* .filter(timestamp >= before_date - timedelta(days=window_days))
InWindow(r, before_date, window_days) ==
    IsNull(window_days) \/ r.timestamp >= Midnight(before_date - Val(window_days))

\* the filter with <=: a reading at midnight of before_date gets in
HistoricalReadingsThroughMidnight(readings, before_date, window_days) ==
    {r \in readings : /\ r.timestamp <= Midnight(before_date)
                      /\ InWindow(r, before_date, window_days)}

\* .filter(TurbineReading.timestamp < before_date) and the window filter
HistoricalReadings(readings, before_date, window_days) ==
    {r \in readings : /\ r.timestamp < Midnight(before_date)
                      /\ InWindow(r, before_date, window_days)}

\* group_by(turbine_id, date(timestamp)) with sum(power_output)
DailyTotals(rows) ==
    {[turbine_id |-> k[1], date |-> k[2],
      daily_total |-> SumPower({r \in rows : r.turbine_id = k[1] /\ DateOf(r.timestamp) = k[2]})] :
        k \in {<<r.turbine_id, DateOf(r.timestamp)>> : r \in rows}}

\* the daily totals of turbine t, by date
TotalsOf(days, t) ==
    LET mine == {d \in days : d.turbine_id = t}
        dates == SortedSeq({d.date : d \in mine})
    IN [i \in 1..Len(dates) |-> (CHOOSE d \in mine : d.date = dates[i]).daily_total]

\* agg("mean"): the fraction <<sum, n>>
AggMean(st) == IF MeanIsNull(st) THEN Null ELSE Some(<<st.sum, st.n>>)

\* the standard deviation with the denominator n (ddof = 0)
AggStdPopulation(st) ==
    IF MeanIsNull(st) THEN Null ELSE Some(<<VarNum(st), st.n * st.n>>)

\* agg("std"), ddof = 1: null on fewer than two values, else the variance
\* as the fraction <<n * sumsq - sum^2, n * (n - 1)>>, whose root it is
AggStd(st) == IF StdIsNull(st) THEN Null ELSE Some(<<VarNum(st), st.n * (st.n - 1)>>)

\* groupby("turbine_id")["daily_total"].agg(mean, std).reset_index(): one
\* row per turbine that has a day, by turbine_id
TurbineStats(days) ==
    LET ids == SortedSeq({d.turbine_id : d \in days})
    IN [i \in 1..Len(ids) |->
          LET st == Stats(TotalsOf(days, ids[i]))
          IN [turbine_id |-> ids[i],
              hist_mean_daily_output |-> AggMean(st),
              hist_std_daily_output |-> AggStd(st)]]

\* no row at all when the query returns none
load_historical_daily_totals_stats(readings, before_date, window_days) ==
    LET days == DailyTotals(HistoricalReadings(readings, before_date, window_days))
    IN IF days = {} THEN <<>> ELSE TurbineStats(days)

----------------------------------------------------------------------------
(* analysis/anomaly_detection.py: detect_daily_output_sum_anomalies.
   today_df is a cleaned DataFrame: its cells hold values. *)

\* sigma_threshold: float = 2.0
SIGMA_THRESHOLD == 2

\* groupby(["turbine_id", "date"])["power_output"].sum()
TodayAggregated(today_df) ==
    LET plain == {[turbine_id |-> Val(today_df[i].turbine_id),
                   timestamp |-> Val(today_df[i].timestamp),
                   power_output |-> Val(today_df[i].power_output)] : i \in 1..Len(today_df)}
        days == DailyTotals(plain)
        ids == SortedSeq({d.turbine_id : d \in days})
    IN Concat([i \in 1..Len(ids) |->
          LET mine == {d \in days : d.turbine_id = ids[i]}
              dates == SortedSeq({d.date : d \in mine})
          IN [j \in 1..Len(dates) |->
                [turbine_id |-> ids[i], date |-> dates[j],
                 total_power_output |-> (CHOOSE d \in mine : d.date = dates[j]).daily_total]]])

\* today_aggregated.merge(hist_stats, on="turbine_id", how="left")
LeftMerge(today, hist_stats) ==
    [i \in 1..Len(today) |->
        LET hit == {j \in 1..Len(hist_stats) : hist_stats[j].turbine_id = today[i].turbine_id}
        IN IF hit = {}
           THEN [turbine_id |-> today[i].turbine_id, date |-> today[i].date,
                 total_power_output |-> today[i].total_power_output,
                 hist_mean_daily_output |-> Null, hist_std_daily_output |-> Null]
           ELSE LET h == hist_stats[CHOOSE j \in hit : TRUE]
                IN [turbine_id |-> today[i].turbine_id, date |-> today[i].date,
                    total_power_output |-> today[i].total_power_output,
                    hist_mean_daily_output |-> h.hist_mean_daily_output,
                    hist_std_daily_output |-> h.hist_std_daily_output]]

\* total >= mean + sigma * std: a total on the bound counts as above it
AboveOrOn(total, mean, std, sigma) ==
    /\ ~IsNull(mean)
    /\ ~IsNull(std)
    /\ LET m == Val(mean)
           v == Val(std)
           d == total * m[2] - m[1]
       IN d >= 0 /\ d * d * v[2] >= sigma * sigma * m[2] * m[2] * v[1]

\* total > mean + sigma * std, with mean = m[1] / m[2] and std^2 = v[1] / v[2]:
\* total - mean is positive and its square exceeds sigma^2 * std^2; a
\* comparison with a null operand is false
Above(total, mean, std, sigma) ==
    /\ ~IsNull(mean)
    /\ ~IsNull(std)
    /\ LET m == Val(mean)
           v == Val(std)
           d == total * m[2] - m[1]
       IN d > 0 /\ d * d * v[2] > sigma * sigma * m[2] * m[2] * v[1]

\* total < mean - sigma * std
Below(total, mean, std, sigma) ==
    /\ ~IsNull(mean)
    /\ ~IsNull(std)
    /\ LET m == Val(mean)
           v == Val(std)
           d == m[1] - total * m[2]
       IN d > 0 /\ d * d * v[2] > sigma * sigma * m[2] * m[2] * v[1]

_flag(row, sigma_threshold) ==
    \/ Above(row.total_power_output, row.hist_mean_daily_output,
             row.hist_std_daily_output, sigma_threshold)
    \/ Below(row.total_power_output, row.hist_mean_daily_output,
             row.hist_std_daily_output, sigma_threshold)

\* merged with its is_anomaly column
Merged(readings, today_df, target_date, window_days, sigma_threshold) ==
    LET hist_stats == load_historical_daily_totals_stats(readings, target_date, window_days)
        m == LeftMerge(TodayAggregated(today_df), hist_stats)
    IN [i \in 1..Len(m) |->
          [turbine_id |-> m[i].turbine_id, date |-> m[i].date,
           total_power_output |-> m[i].total_power_output,
           hist_mean_daily_output |-> m[i].hist_mean_daily_output,
           hist_std_daily_output |-> m[i].hist_std_daily_output,
           is_anomaly |-> _flag(m[i], sigma_threshold)]]

\* merged[...][merged["is_anomaly"]]
detect_daily_output_sum_anomalies(readings, today_df, target_date, window_days, sigma) ==
    LET m == Merged(readings, today_df, target_date, window_days, sigma)
    IN Pick(m, {i \in 1..Len(m) : m[i].is_anomaly})

----------------------------------------------------------------------------
(* ingestion/reader.py, ingestion/utils.py, analysis/statistics.py and the
   writes of persistence/crud.py.  A file is what read_csv_file makes of it:
   unreadable, or the columns and rows of a DataFrame; an Optional result is
   a cell.  A cell read from a file may also hold text that is no number and
   no time: a cell of length 2. *)

REQUIRED_COLUMNS == {"timestamp", "turbine_id", "wind_speed", "wind_direction", "power_output"}

Text == <<0, 0>>
IsText(c) == Len(c) = 2

\* None for a file that is missing, empty or badly formatted
read_csv_file(file) == IF file.readable THEN Some(file.rows) ELSE Null

TURBINE_GROUPS == (1 :> <<1, 5>>) @@ (2 :> <<6, 10>>) @@ (3 :> <<11, 15>>)

\* the order of sort_values('timestamp'): null timestamps go last
TsBefore(a, b) ==
    /\ ~IsNull(a.timestamp)
    /\ IsNull(b.timestamp) \/ Val(a.timestamp) < Val(b.timestamp)

\* rows of equal timestamp keep their order
RECURSIVE sort_by_timestamp(_)
sort_by_timestamp(d) ==
    IF d = <<>> THEN <<>>
    ELSE LET s == sort_by_timestamp(SubSeq(d, 1, Len(d) - 1))
             r == d[Len(d)]
             k == Cardinality({j \in 1..Len(s) : ~TsBefore(r, s[j])})
         IN SubSeq(s, 1, k) \o <<r>> \o SubSeq(s, k + 1, Len(s))

\* None when a required column is missing, when to_datetime meets text, and
\* when astype meets text or a null turbine_id (which has no int64 value; a
\* null sensor is a float and a null timestamp is NaT)
validate_dataframe(columns, d) ==
    IF REQUIRED_COLUMNS \ columns # {} THEN Null
    ELSE IF \E i \in 1..Len(d) : IsText(d[i].timestamp) THEN Null
    ELSE IF \E i \in 1..Len(d) :
               \/ IsNull(d[i].turbine_id)
               \/ IsText(d[i].turbine_id)
               \/ \E c \in SensorSet : IsText(d[i][c])
         THEN Null
    ELSE Some(d)

validate_turbine_ids(d, group) ==
    \A i \in 1..Len(d) :
        /\ Val(d[i].turbine_id) >= TURBINE_GROUPS[group][1]
        /\ Val(d[i].turbine_id) <= TURBINE_GROUPS[group][2]

\* read_and_validate_csv raises: df.sort_values('timestamp') comes before
\* the test for None and has no timestamp column to sort by when the file
\* lacks it, and TURBINE_GROUPS has no entry for a group number other than
\* 1, 2, 3 (a KeyError, which except ValueError lets through).  group_name
\* is the number in the name data_group_<n>, null when the name has none.
ReadRaises(file) ==
    \/ IsNull(read_csv_file(file))
    \/ "timestamp" \notin file.columns
    \/ /\ ~IsNull(validate_dataframe(file.columns, sort_by_timestamp(file.rows)))
       /\ ~IsNull(file.group_name)
       /\ Val(file.group_name) \notin DOMAIN TURBINE_GROUPS

\* what it returns when it does not raise; a name without group number is a
\* ValueError of get_turbine_group_from_filename, which is caught
read_and_validate_csv(file) ==
    LET v == validate_dataframe(file.columns, sort_by_timestamp(file.rows))
    IN IF IsNull(v) THEN Null
       ELSE IF IsNull(file.group_name) THEN Null
       ELSE IF ~validate_turbine_ids(Val(v), Val(file.group_name)) THEN Null
       ELSE v

\* df['timestamp'].dt.date == target_date: false on a null timestamp
filter_today_data(d, target_date) ==
    Pick(d, {i \in 1..Len(d) : /\ ~IsNull(d[i].timestamp)
                               /\ DateOf(Val(d[i].timestamp)) = target_date})

Min(S) == CHOOSE x \in S : \A y \in S : x <= y
Max(S) == CHOOSE x \in S : \A y \in S : x >= y

\* the same with the whole date as the group: the rows of every turbine of
\* the date contribute to each of its rows
calculate_daily_summary_over_date(d) ==
    LET dates == SortedSeq({DateOf(Val(d[i].timestamp)) : i \in 1..Len(d)})
    IN Concat([a \in 1..Len(dates) |->
          LET I == {i \in 1..Len(d) : DateOf(Val(d[i].timestamp)) = dates[a]}
              ids == SortedSeq({Val(d[i].turbine_id) : i \in I})
          IN [b \in 1..Len(ids) |->
                LET po == Pick([i \in 1..Len(d) |-> Val(d[i].power_output)], I)
                IN [date |-> dates[a], turbine_id |-> ids[b],
                    min_power_output |-> Min({po[k] : k \in 1..Len(po)}),
                    max_power_output |-> Max({po[k] : k \in 1..Len(po)}),
                    mean_power_output |-> <<SumSeq(po), Len(po)>>]]])

\* groupby([date, turbine_id]).agg(min, max, mean) of power_output, the
\* mean as the fraction <<sum, count>>; d holds no null cell
calculate_daily_summary(d) ==
    LET dates == SortedSeq({DateOf(Val(d[i].timestamp)) : i \in 1..Len(d)})
    IN Concat([a \in 1..Len(dates) |->
          LET I == {i \in 1..Len(d) : DateOf(Val(d[i].timestamp)) = dates[a]}
              ids == SortedSeq({Val(d[i].turbine_id) : i \in I})
          IN [b \in 1..Len(ids) |->
                LET J == {i \in I : Val(d[i].turbine_id) = ids[b]}
                    po == Pick([i \in 1..Len(d) |-> Val(d[i].power_output)], J)
                IN [date |-> dates[a], turbine_id |-> ids[b],
                    min_power_output |-> Min({po[k] : k \in 1..Len(po)}),
                    max_power_output |-> Max({po[k] : k \in 1..Len(po)}),
                    mean_power_output |-> <<SumSeq(po), Len(po)>>]]])

\* df.to_dict(orient="records") of a cleaned DataFrame
to_records(d) ==
    {[timestamp |-> Val(d[i].timestamp), turbine_id |-> Val(d[i].turbine_id),
      wind_speed |-> Val(d[i].wind_speed), wind_direction |-> Val(d[i].wind_direction),
      power_output |-> Val(d[i].power_output)] : i \in 1..Len(d)}

\* unique_timestamp_turbine
SameReading(a, b) == a.timestamp = b.timestamp /\ a.turbine_id = b.turbine_id

\* an insert into a table without the unique constraint: every row goes in
insert_readings_unconstrained(readings, d, update_existing) ==
    readings \cup to_records(d)

\* on_conflict_do_update overwrites the sensor columns of a stored row of the
\* same key, on_conflict_do_nothing leaves it
insert_or_update_readings_from_dataframe(readings, d, update_existing) ==
    LET records == to_records(d)
    IN IF update_existing
       THEN {x \in readings : ~\E r \in records : SameReading(x, r)} \cup records
       ELSE readings \cup {r \in records : ~\E x \in readings : SameReading(x, r)}

\* the primary key of daily_summary and of daily_anomalies
SameDay(a, b) == a.date = b.date /\ a.turbine_id = b.turbine_id

insert_daily_summary(summaries, summary_df) ==
    summaries \cup {summary_df[i] : i \in {j \in 1..Len(summary_df) :
                                     ~\E x \in summaries : SameDay(x, summary_df[j])}}

insert_reading_level_anomalies(anomalies, anomalies_df) ==
    anomalies \cup {anomalies_df[i] : i \in {j \in 1..Len(anomalies_df) :
                                       ~\E x \in anomalies : SameDay(x, anomalies_df[j])}}

----------------------------------------------------------------------------
(* ingestion_db_pipeline.py: run_pipeline, with the transaction of
   persistence/database.py: get_db_session.  The writes go through one
   session and are committed once, after the last of them; an exception
   inside the session rolls all of them back.  The baseline query runs on
   db.bind, the engine, hence on a connection of its own, which sees the
   committed rows and not the rows the session has written so far.

   The result is the database after the run and what the run did: how it
   ended, the rows it handed to the readings upsert, to the summary insert
   and to the anomaly insert, and, when it loaded a baseline, the readings
   the query saw and the baseline. *)

\* the session of a run that has written nothing
Ended(st, status) ==
    [store |-> st, status |-> status, wrote |-> {}, summary |-> {}, anomalies |-> {},
     saw |-> {}, hist_stats |-> Null]

\* a rollback that keeps what the session has written so far
rollback_nothing(st, session) == session

\* db.rollback(): the database is what it was when the session began
rollback(st, session) == st

\* db.commit(): the database is what the session has made of it
commit(st, session) == session

\* The set of ways the run can end.  Each write and the baseline load can
\* fail (a SQLAlchemyError); and when the cleaning leaves no row and a target
\* date is given, merged.apply(_flag, axis=1) on a frame without rows gives,
\* depending on the pandas at hand, a value the assignment to
\* merged["is_anomaly"] takes or one it rejects.
\* run_pipeline up to the session: read and validate, keep the rows of the
\* target date, clean and summarise.  It depends on the file and the target
\* date alone.
ingest(file, target_date) ==
    IF ReadRaises(file) THEN [status |-> "raised", cleaned |-> <<>>, summary_df |-> <<>>]
    ELSE
    LET v == read_and_validate_csv(file)
    IN IF IsNull(v) THEN [status |-> "invalid", cleaned |-> <<>>, summary_df |-> <<>>]
       ELSE
       LET today == IF IsNull(target_date) THEN Val(v)
                    ELSE filter_today_data(Val(v), Val(target_date))
       IN IF ~IsNull(target_date) /\ today = <<>>
          THEN [status |-> "no data", cleaned |-> <<>>, summary_df |-> <<>>]
          ELSE LET cleaned == clean_data(today, SENSOR_LIMITS)
               IN [status |-> "cleaned", cleaned |-> cleaned,
                   summary_df |-> calculate_daily_summary(cleaned)]

\* run_pipeline from the session on, for what ingest made of the file
run_session(st, ing, target_date, update_existing, window_days) ==
    IF ing.status # "cleaned" THEN {Ended(st, ing.status)}
    ELSE
          LET cleaned == ing.cleaned
              summary_df == ing.summary_df
              s1 == IF cleaned # <<>>
                    THEN [st EXCEPT !.readings = insert_or_update_readings_from_dataframe(
                                                     st.readings, cleaned, update_existing)]
                    ELSE st
              s2 == IF summary_df # <<>>
                    THEN [s1 EXCEPT !.summaries = insert_daily_summary(st.summaries, summary_df)]
                    ELSE s1
              did1 == [Ended(st, "upsert failed") EXCEPT !.wrote = to_records(cleaned)]
              did2 == [did1 EXCEPT !.summary = Rows(summary_df)]
              upsert_fails == IF cleaned = <<>> THEN {}
                              ELSE {[did1 EXCEPT !.store = rollback(st, st)]}
              summary_fails == IF summary_df = <<>> THEN {}
                               ELSE {[did2 EXCEPT !.store = rollback(st, s1),
                                                  !.status = "summary insert failed"]}
          IN IF IsNull(target_date)
             THEN {[did2 EXCEPT !.store = commit(st, s2), !.status = "committed"]}
                  \cup upsert_fails \cup summary_fails
             ELSE
             LET hist_stats == load_historical_daily_totals_stats(
                                   st.readings, Val(target_date), window_days)
                 anomalies_df == detect_daily_output_sum_anomalies(
                                     st.readings, cleaned, Val(target_date),
                                     window_days, SIGMA_THRESHOLD)
                 s3 == IF anomalies_df # <<>>
                       THEN [s2 EXCEPT !.anomalies = insert_reading_level_anomalies(
                                                         st.anomalies, anomalies_df)]
                       ELSE s2
                 did3 == [did2 EXCEPT !.saw = st.readings, !.hist_stats = Some(hist_stats)]
                 did4 == [did3 EXCEPT !.anomalies = Rows(anomalies_df)]
             IN {[did4 EXCEPT !.store = commit(st, s3), !.status = "committed"]}
                \cup upsert_fails \cup summary_fails
                \cup {[did2 EXCEPT !.store = rollback(st, s2),
                                   !.status = "baseline load failed"]}
                \cup (IF anomalies_df = <<>> THEN {}
                      ELSE {[did4 EXCEPT !.store = rollback(st, s2),
                                         !.status = "anomaly insert failed"]})
                \cup (IF cleaned # <<>> THEN {}
                      ELSE {[did3 EXCEPT !.store = rollback(st, s2), !.status = "raised"]})

run_pipeline(st, file, target_date, update_existing, window_days) ==
    run_session(st, ingest(file, target_date), target_date, update_existing, window_days)

----------------------------------------------------------------------------
(* Input batches *)

\* all sequences over S of length at most n
RECURSIVE SeqsUpTo(_, _)
SeqsUpTo(S, n) ==
    IF n = 0 THEN {<<>>}
    ELSE LET shorter == SeqsUpTo(S, n - 1)
         IN shorter \cup {Append(s, x) : s \in {t \in shorter : Len(t) = n - 1}, x \in S}

EmptyStore == [readings |-> {}, summaries |-> {}, anomalies |-> {}]
NoRun == [n |-> 0]

\* a call of one of the cleaning functions leaves the database alone
Idle == store = EmptyStore /\ run = NoRun

----------------------------------------------------------------------------
(* remove_duplicates on its own *)

MaxDedupRows == 3

DedupRows ==
    {Row(ts, tid, Some(10), Some(90), Some(po)) :
        ts \in {Null, Some(1), Some(2)}, tid \in {Null, Some(1), Some(2)},
        po \in {0, 1}}

InitDedup ==
    /\ df \in SeqsUpTo(DedupRows, MaxDedupRows)
    /\ arg = [op |-> "remove_duplicates"]
    /\ out = <<>>
    /\ again = <<>>
    /\ pc = "ready"
    /\ Idle

RemoveDuplicates ==
    /\ pc = "ready"
    /\ out' = remove_duplicates(df)
    /\ pc' = "called"
    /\ UNCHANGED <<df, arg, again, store, run>>

RemoveDuplicatesAgain ==
    /\ pc = "called"
    /\ again' = remove_duplicates(out)
    /\ pc' = "recalled"
    /\ UNCHANGED <<df, arg, out, store, run>>

NextDedup == RemoveDuplicates \/ RemoveDuplicatesAgain

SpecDedup == InitDedup /\ [][NextDedup]_vars

\* s is d with some rows left out, the others in their order
RECURSIVE IsSubFrame(_, _)
IsSubFrame(s, d) ==
    IF s = <<>> THEN TRUE
    ELSE IF d = <<>> THEN FALSE
    ELSE IF Head(s) = Head(d) THEN IsSubFrame(Tail(s), Tail(d))
    ELSE IsSubFrame(s, Tail(d))

KeysOf(d) == {Key(d[i]) : i \in 1..Len(d)}

CountKey(d, k) == Cardinality({i \in 1..Len(d) : Key(d[i]) = k})

\* C4: the result of remove_duplicates is a sub-collection of its input with
\* exactly one row for every (timestamp, turbine_id) pair of the input (so no
\* two rows share a key and the result is no larger than the input), and a
\* second application returns the result of the first unchanged.
C4_DedupOnePerKey ==
    /\ pc \in {"called", "recalled"} =>
          /\ IsSubFrame(out, df)
          /\ \A k \in KeysOf(df) : CountKey(out, k) = 1
          /\ \A i, j \in 1..Len(out) : Key(out[i]) = Key(out[j]) => i = j
          /\ Len(out) <= Len(df)
    /\ pc = "recalled" => again = out

C4_Witness ==
    /\ pc = "recalled"
    /\ Len(out) = 2
    /\ Len(df) = 3

----------------------------------------------------------------------------
(* handle_missing_values on its own.  In the program it runs on the result
   of remove_duplicates, so the rows with a full key have distinct keys. *)

MaxGroupRows == 4

Reverse(s) == [i \in 1..Len(s) |-> s[Len(s) + 1 - i]]

\* sensor cells <<wind_speed, wind_direction, power_output>> of one row
MissingPatterns ==
    {<<Some(10), Some(90), Some(5)>>, <<Some(12), Some(90), Some(7)>>,
     <<Some(10), Some(90), Null>>, <<Null, Some(90), Null>>}

\* turbine t, one row per timestamp 1..Len(ps), with the sensor cells ps[i]
GroupRows(t, ps) ==
    [i \in 1..Len(ps) |-> Row(Some(i), Some(t), ps[i][1], ps[i][2], ps[i][3])]

\* what a second turbine of the batch holds
OtherGroups ==
    {<<>>,
     <<<<Some(12), Some(90), Some(7)>>>>,
     <<<<Null, Some(90), Some(5)>>, <<Some(12), Some(90), Some(7)>>>>,
     <<<<Some(12), Some(90), Some(7)>>, <<Null, Some(90), Null>>,
       <<Null, Some(90), Some(7)>>>>}

\* rows without a key
KeylessRows ==
    {<<>>,
     <<Row(Null, Some(1), Some(10), Some(90), Some(5))>>,
     <<Row(Some(1), Null, Some(10), Some(90), Some(5))>>}

MissingBatches ==
    LET natural ==
            {GroupRows(1, a) \o GroupRows(2, b) \o k :
                a \in SeqsUpTo(MissingPatterns, MaxGroupRows),
                b \in OtherGroups, k \in KeylessRows}
    IN natural \cup {Reverse(d) : d \in natural}

InitMissing ==
    /\ df \in MissingBatches
    /\ arg = [op |-> "handle_missing_values"]
    /\ out = <<>>
    /\ again = <<>>
    /\ pc = "ready"
    /\ Idle

HandleMissingValues ==
    /\ pc = "ready"
    /\ out' = handle_missing_values(df)
    /\ pc' = "called"
    /\ UNCHANGED <<df, arg, again, store, run>>

NextMissing == HandleMissingValues

SpecMissing == InitMissing /\ [][NextMissing]_vars

HasKey(r) == ~IsNull(r.timestamp) /\ ~IsNull(r.turbine_id)

\* the rows of r's turbine up to and including r, by timestamp
UpTo(d, r) ==
    {q \in Rows(d) : /\ HasKey(q)
                     /\ q.turbine_id = r.turbine_id
                     /\ Val(q.timestamp) <= Val(r.timestamp)}

\* the valid observations of column c at or before r
Observed(d, r, c) == {q \in UpTo(d, r) : ~IsNull(q[c])}

LastObserved(d, r, c) ==
    LET obs == Observed(d, r, c)
    IN CHOOSE q \in obs : \A p \in obs : Val(p.timestamp) <= Val(q.timestamp)

\* r's place in the run of missing values of column c it belongs to: 0 for
\* a valid cell, 1 for the first missing cell after an observation, ...
RunPlace(d, r, c) ==
    LET t0 == Val(LastObserved(d, r, c).timestamp)
    IN Cardinality({q \in UpTo(d, r) : Val(q.timestamp) > t0})

\* the cell of column c of r after the bounded fill
Filled(d, r, c) ==
    IF Observed(d, r, c) = {} THEN Null
    ELSE IF RunPlace(d, r, c) <= 2 THEN LastObserved(d, r, c)[c] ELSE Null

FilledRow(d, r) ==
    Row(r.timestamp, r.turbine_id, Filled(d, r, "wind_speed"),
        Filled(d, r, "wind_direction"), Filled(d, r, "power_output"))

Survivors(d) ==
    {r \in Rows(d) : HasKey(r) /\ \A c \in SensorSet : ~IsNull(Filled(d, r, c))}

\* the length of the run of missing values of column c that r is part of
RunLength(d, r, c) ==
    LET same == {q \in Rows(d) : HasKey(q) /\ q.turbine_id = r.turbine_id}
        later == {q \in same : /\ Val(q.timestamp) > Val(r.timestamp)
                               /\ \A p \in same :
                                     (/\ Val(p.timestamp) > Val(r.timestamp)
                                      /\ Val(p.timestamp) <= Val(q.timestamp))
                                     => IsNull(p[c])}
    IN RunPlace(d, r, c) + Cardinality(later)

\* C2: per turbine, in timestamp order and per sensor column, the first 2
\* missing values after a valid observation take that observation and later
\* ones stay missing; a row survives exactly when none of its sensor cells
\* is still missing, so a run of exactly 2 costs no row and a run of 3 or
\* more loses every row from the 3rd on; rows without timestamp or
\* turbine_id are dropped and the result holds no null sensor cell.
C2_BoundedFill ==
    pc = "called" =>
       LET keyed == {r \in Rows(df) : HasKey(r)}
           fill == [r \in keyed |-> [c \in SensorSet |-> Filled(df, r, c)]]
           place == [r \in keyed |-> [c \in SensorSet |->
                       IF Observed(df, r, c) = {} THEN 0 ELSE RunPlace(df, r, c)]]
           len == [r \in keyed |-> [c \in SensorSet |->
                       IF Observed(df, r, c) = {} THEN 0 ELSE RunLength(df, r, c)]]
           kept == {r \in keyed : \A c \in SensorSet : ~IsNull(fill[r][c])}
           keys == KeysOf(out)
       IN /\ Rows(out) = {Row(r.timestamp, r.turbine_id, fill[r]["wind_speed"],
                              fill[r]["wind_direction"], fill[r]["power_output"]) :
                            r \in kept}
          /\ Len(out) = Cardinality(kept)
          /\ \A i \in 1..Len(out) :
                /\ HasKey(out[i])
                /\ \A c \in SensorSet : ~IsNull(out[i][c])
          /\ \A r \in keyed : \A c \in SensorSet :
                /\ place[r][c] >= 3 => Key(r) \notin keys
                /\ (len[r][c] = 2 /\ Key(r) \notin keys) =>
                      \E c2 \in SensorSet \ {c} : IsNull(fill[r][c2])
                /\ (place[r][c] \in {1, 2} /\ Key(r) \in keys) =>
                      \E i \in 1..Len(out) :
                         /\ Key(out[i]) = Key(r)
                         /\ out[i][c] = LastObserved(df, r, c)[c]
          /\ \A t \in TurbineIds(df) :
                (\A r \in keyed : \A c \in SensorSet :
                    r.turbine_id = Some(t) =>
                       (Observed(df, r, c) # {} /\ len[r][c] <= 2))
                => Cardinality({i \in 1..Len(out) : out[i].turbine_id = Some(t)})
                     = Cardinality({r \in keyed : r.turbine_id = Some(t)})

\* a run of 3 missing wind speeds after an observation: two filled, one lost
C2_Witness ==
    /\ pc = "called"
    /\ \E r \in Rows(df) :
          /\ HasKey(r)
          /\ Observed(df, r, "wind_speed") # {}
          /\ RunPlace(df, r, "wind_speed") = 3
          /\ Key(r) \notin KeysOf(out)
    /\ \E r \in Rows(df) :
          /\ HasKey(r)
          /\ Observed(df, r, "wind_speed") # {}
          /\ RunPlace(df, r, "wind_speed") = 2
          /\ Key(r) \in KeysOf(out)
    /\ \E r \in Rows(df) : \E c \in SensorSet :
          /\ HasKey(r)
          /\ Observed(df, r, c) # {}
          /\ RunLength(df, r, c) = 2
          /\ RunPlace(df, r, c) = 2
          /\ Key(r) \in KeysOf(out)

----------------------------------------------------------------------------
(* clean_physical_limits on its own *)

MaxLimitRows == 3

LimitCells ==
    {<<ws, Some(90), Some(0)>> : ws \in {Some(3), Some(5), Some(20), Some(25), Null}}
    \cup {<<ws, Some(400), po>> : ws \in {Some(5), Some(25)}, po \in {Some(0), Some(0 - 5)}}

Unbounded == [min |-> Null, max |-> Null]

\* the default, the ranges of tests/test_cleaning.py, one-sided ranges, and
\* a feature without any bound
LimitChoices ==
    {SENSOR_LIMITS,
     [wind_speed |-> [min |-> Some(5), max |-> Some(20)]],
     [wind_speed |-> [min |-> Null, max |-> Some(20)],
      power_output |-> [min |-> Some(0), max |-> Null]],
     [wind_direction |-> Unbounded]}

InitLimits ==
    /\ \E ps \in SeqsUpTo(LimitCells, MaxLimitRows) : df = GroupRows(1, ps)
    /\ \E l \in LimitChoices : arg = [op |-> "clean_physical_limits", sensor_limits |-> l]
    /\ out = <<>>
    /\ again = <<>>
    /\ pc = "ready"
    /\ Idle

CleanPhysicalLimits ==
    /\ pc = "ready"
    /\ out' = clean_physical_limits(df, arg.sensor_limits)
    /\ pc' = "called"
    /\ UNCHANGED <<df, arg, again, store, run>>

NextLimits == CleanPhysicalLimits

SpecLimits == InitLimits /\ [][NextLimits]_vars

\* v within [min, max], bounds included, a null bound leaving its side open
InRange(v, lim) ==
    /\ IsNull(lim.min) \/ Val(v) >= Val(lim.min)
    /\ IsNull(lim.max) \/ Val(v) <= Val(lim.max)

OutOfRange(r, lims) ==
    \E f \in DOMAIN lims : ~IsNull(r[f]) /\ ~InRange(r[f], lims[f])

\* C3: clean_physical_limits removes a row exactly when one of its features
\* with a configured range is below the min or above the max (bounds
\* inclusive, a null bound unbounded); a row that breaks several ranges goes
\* once, every other row stays as it was and in place, so the result is as
\* long as the input less the rows that break a range.
C3_PhysicalLimits ==
    pc = "called" =>
       LET bad == {i \in 1..Len(df) : OutOfRange(df[i], arg.sensor_limits)}
       IN /\ IsSubFrame(out, df)
          /\ \A i \in 1..Len(df) : (df[i] \in Rows(out)) <=> (i \notin bad)
          /\ Len(out) = Len(df) - Cardinality(bad)

\* a row on a bound stays, a row out of two ranges goes once
C3_Witness ==
    /\ pc = "called"
    /\ arg.sensor_limits = SENSOR_LIMITS
    /\ Len(df) = 3
    /\ Len(out) = 2
    /\ \E i \in 1..Len(df) :
          /\ df[i].wind_direction = Some(400)
          /\ df[i].power_output = Some(0 - 5)
    /\ \E i \in 1..Len(out) : out[i].power_output = Some(0)

----------------------------------------------------------------------------
(* detect_and_handle_outliers_statistically_std on its own.  In the program
   it runs on the result of clean_physical_limits: no null cell is left and
   turbine_id is an int64 column.  A value can lie more than 3 sample
   standard deviations from the mean only in a partition of 11 rows or more,
   so the batches start with a block of equal readings of turbine 1. *)

BlockLen == 10
MaxFreeRows == 3

BlockLens == {0, BlockLen, BlockLen + 1}

Block(k) == [i \in 1..k |-> Row(Some(i), Some(1), Some(10), Some(90), Some(0))]

\* free rows get the timestamps after the block
Stamp(k, rows) ==
    [i \in 1..Len(rows) |->
        Row(Some(BlockLen + 1 + i), rows[i].turbine_id, rows[i].wind_speed,
            rows[i].wind_direction, rows[i].power_output)]

OutlierRows ==
    {Row(Null, Some(t), Some(10), Some(90), Some(po)) : t \in {1, 2}, po \in {0, 1, 100}}

Actions == {"drop", "flag", "mask"}

InitOutlier ==
    /\ \E k \in BlockLens : \E f \in SeqsUpTo(OutlierRows, MaxFreeRows) :
          df = Block(k) \o Stamp(k, f)
    /\ \E a \in Actions :
          arg = [op |-> "detect_and_handle_outliers_statistically_std", action |-> a]
    /\ out = <<>>
    /\ again = <<>>
    /\ pc = "ready"
    /\ Idle

DetectOutliers ==
    /\ pc = "ready"
    /\ ~Raises(arg.action)
    /\ out' = detect_and_handle_outliers_statistically_std(df, arg.action)
    /\ pc' = "called"
    /\ UNCHANGED <<df, arg, again, store, run>>

DetectOutliersRaises ==
    /\ pc = "ready"
    /\ Raises(arg.action)
    /\ pc' = "raised"
    /\ UNCHANGED <<df, arg, out, again, store, run>>

DetectOutliersAgain ==
    /\ pc = "called"
    /\ arg.action = "drop"
    /\ again' = detect_and_handle_outliers_statistically_std(out, "drop")
    /\ pc' = "recalled"
    /\ UNCHANGED <<df, arg, out, store, run>>

NextOutlier == DetectOutliers \/ DetectOutliersRaises \/ DetectOutliersAgain

SpecOutlier == InitOutlier /\ [][NextOutlier]_vars

\* the power_output values of the rows of d that share r's turbine
PartitionOf(d, r) ==
    LET g == Pick(d, {i \in 1..Len(d) : d[i].turbine_id = r.turbine_id})
    IN [i \in 1..Len(g) |-> Val(g[i].power_output)]

\* sum over i of (n * xs[i] - sum(xs))^2 = n^2 * the sum of squared
\* deviations from the mean
SqDev(xs) ==
    LET n == Len(xs)
        total == SumSeq(xs)
    IN SumSeq([i \in 1..n |-> (n * xs[i] - total) * (n * xs[i] - total)])

\* x lies in [mean - 3 std, mean + 3 std] of xs, std the sample standard
\* deviation sqrt(sum of squared deviations / (n - 1)): it takes two values
\* for the interval to exist
WithinThreeSigma(x, xs) ==
    LET n == Len(xs)
    IN /\ n >= 2
       /\ (n * x - SumSeq(xs)) * (n * x - SumSeq(xs)) * (n - 1) <= 9 * SqDev(xs)

Classified(d, i) == ~WithinThreeSigma(Val(d[i].power_output), PartitionOf(d, d[i]))

\* C5: a row is an outlier exactly when its power_output is not within
\* [mean - 3 std, mean + 3 std] of its own turbine's rows (sample std, bounds
\* inclusive), so a partition of equal values has none; "drop" returns the
\* input less exactly those rows, "flag" returns every row with is_outlier
\* set on exactly those rows, any other action raises and returns nothing.
C5_OutlierClassification ==
    /\ (pc \in {"called", "recalled"} /\ arg.op = "detect_and_handle_outliers_statistically_std"
            /\ arg.action = "drop") =>
          LET kept == {i \in 1..Len(df) : ~Classified(df, i)}
          IN /\ Rows(out) = {df[i] : i \in kept}
             /\ Len(out) = Cardinality(kept)
             /\ \A t \in TurbineIds(df) : IsSubFrame(Group(out, t), Group(df, t))
    /\ (pc = "called" /\ arg.op = "detect_and_handle_outliers_statistically_std"
            /\ arg.action = "flag") =>
          /\ Len(out) = Len(df)
          /\ \A i \in 1..Len(df) :
                /\ out[i].row = df[i]
                /\ out[i].is_outlier <=> Classified(df, i)
    /\ (pc \in {"called", "recalled"} /\ arg.op = "detect_and_handle_outliers_statistically_std") =>
          \A i \in 1..Len(df) :
             LET xs == PartitionOf(df, df[i])
             IN (Len(xs) >= 2 /\ \A k \in 1..Len(xs) : xs[k] = xs[1])
                  => ~IsOut(df[i], GroupStats(Pick(df, {j \in 1..Len(df) :
                                                  df[j].turbine_id = df[i].turbine_id})))
    /\ (arg.op = "detect_and_handle_outliers_statistically_std"
            /\ arg.action \notin {"drop", "flag"}) =>
          /\ pc \in {"ready", "raised"}
          /\ out = <<>>

\* a far value among eleven equal ones is dropped, the equal ones stay
C5_Witness ==
    /\ pc = "called"
    /\ arg.op = "detect_and_handle_outliers_statistically_std"
    /\ arg.action = "drop"
    /\ Len(df) = BlockLen + 3
    /\ Len(out) = BlockLen + 2
    /\ \E i \in 1..Len(df) : df[i].power_output = Some(100) /\ df[i] \notin Rows(out)
    /\ \E i \in 1..Len(df) : df[i].turbine_id = Some(2) /\ df[i] \in Rows(out)

----------------------------------------------------------------------------
(* clean_data *)

MaxCleanRows == 2

\* sensor cells of the free rows: a near and a far power value, a missing
\* wind speed, a missing power value, a row out of its physical ranges
CleanCells ==
    {<<Some(10), Some(90), Some(1)>>, <<Some(10), Some(90), Some(100)>>,
     <<Null, Some(90), Some(0)>>, <<Some(10), Some(90), Null>>,
     <<Some(0 - 1), Some(400), Some(0)>>}

CleanRows ==
    {Row(Some(BlockLen + 1 + i), Some(1), c[1], c[2], c[3]) :
        i \in {1, 2}, c \in CleanCells}
    \cup {Row(Some(BlockLen + 1 + i), Some(2), ws, Some(90), Some(1)) :
        i \in {1, 2}, ws \in {Some(10), Null}}
    \cup {Row(Null, Some(1), Some(10), Some(90), Some(1)),
          Row(Some(BlockLen + 2), Null, Some(10), Some(90), Some(1))}

\* the default ranges and those of tests/test_cleaning.py
CleanLimits ==
    {SENSOR_LIMITS, [wind_speed |-> [min |-> Some(5), max |-> Some(20)]]}

InitClean ==
    /\ \E k \in BlockLens : \E f \in SeqsUpTo(CleanRows, MaxCleanRows) :
          df = Block(k) \o f
    /\ \E l \in CleanLimits : arg = [op |-> "clean_data", sensor_limits |-> l]
    /\ out = <<>>
    /\ again = <<>>
    /\ pc = "ready"
    /\ Idle

CleanData ==
    /\ pc = "ready"
    /\ out' = Stages(df, arg.sensor_limits)
    /\ pc' = "called"
    /\ UNCHANGED <<df, arg, again, store, run>>

CleanDataAgain ==
    /\ pc = "called"
    /\ again' = [op |-> "clean_data",
                 df |-> clean_data(out.outliers, arg.sensor_limits)]
    /\ pc' = "recalled"
    /\ UNCHANGED <<df, arg, out, store, run>>

DetectOutliersOnCleaned ==
    /\ pc = "called"
    /\ again' = [op |-> "detect_and_handle_outliers_statistically_std",
                 df |-> detect_and_handle_outliers_statistically_std(out.outliers, "drop")]
    /\ pc' = "recalled"
    /\ UNCHANGED <<df, arg, out, store, run>>

NextClean == CleanData \/ CleanDataAgain \/ DetectOutliersOnCleaned

SpecClean == InitClean /\ [][NextClean]_vars

\* the row of d with r's key agrees with r wherever it holds a value
RepairedFrom(r, d) ==
    \E i \in 1..Len(d) :
       /\ Key(d[i]) = Key(r)
       /\ \A c \in SensorSet : IsNull(d[i][c]) \/ d[i][c] = r[c]

\* C1: every row clean_data returns has a timestamp, a turbine_id and all
\* three sensor values, lies within every configured physical range and has
\* its power_output within mean +- 3 std of the rows of its turbine that
\* reached the outlier stage; each stage only takes rows away from what the
\* stage before it left (the fill alone writes cells, and only null ones).
C1_CleanedRows ==
    pc \in {"called", "recalled"} =>
       /\ \A i \in 1..Len(out.outliers) :
             LET r == out.outliers[i]
             IN /\ HasKey(r)
                /\ \A c \in SensorSet : ~IsNull(r[c])
                /\ \A f \in DOMAIN arg.sensor_limits : InRange(r[f], arg.sensor_limits[f])
                /\ WithinThreeSigma(Val(r.power_output), PartitionOf(out.limits, r))
       /\ IsSubFrame(out.outliers, out.limits)
       /\ IsSubFrame(out.limits, out.missing)
       /\ \A i \in 1..Len(out.missing) : RepairedFrom(out.missing[i], out.dedup)
       /\ Len(out.missing) <= Len(out.dedup)
       /\ IsSubFrame(out.dedup, df)

\* a batch that loses one row to the physical ranges and one to the outlier
\* bounds and keeps the rest
C1_Witness ==
    /\ pc = "called"
    /\ Len(out.dedup) = BlockLen + 2
    /\ Len(out.limits) = BlockLen + 1
    /\ Len(out.outliers) = BlockLen

\* C6 as stated: detect_and_handle_outliers_statistically_std (drop) applied
\* to its own result, and clean_data applied to its own result, remove no row.
C6_FixedPoint ==
    pc = "recalled" => Len(again.df) = Len(out.outliers)

\* C6, amended: a second application never adds or changes a row, and takes
\* no row from a turbine partition that holds at most 10 rows after the
\* first (a value can lie more than 3 sample standard deviations from the
\* mean of n values only when (n - 1)^2 > 9 n, that is from 11 rows on).
C6_FixedPointUpToTenRows ==
    pc = "recalled" =>
       /\ IsSubFrame(again.df, out.outliers)
       /\ \A t \in TurbineIds(out.outliers) :
             Len(Group(out.outliers, t)) <= 10 =>
                Group(again.df, t) = Group(out.outliers, t)

\* the first pass drops a value and leaves at most 10 rows, which the second
\* pass returns as they are
C6_Witness ==
    /\ pc = "recalled"
    /\ again.op = "detect_and_handle_outliers_statistically_std"
    /\ Len(out.outliers) < Len(out.limits)
    /\ Len(out.outliers) >= 2
    /\ Len(out.outliers) <= 10
    /\ again.df = out.outliers

----------------------------------------------------------------------------
(* load_historical_daily_totals_stats and detect_daily_output_sum_anomalies
   on their own: a database that holds readings, the cleaned readings of the
   target date, and one call. *)

HistoryDays == 3

\* the date the call is about: the day after the history
TargetDate == HistoryDays + 1

\* the stored row of turbine t in slot k of day d
Reading(d, k, t, po) ==
    [timestamp |-> Midnight(d) + k, turbine_id |-> t,
     wind_speed |-> 10, wind_direction |-> 90, power_output |-> po]

\* a day of turbine t with the given total: none for 0, else two readings,
\* the first at midnight
DayReadings(d, t, total) ==
    IF total = 0 THEN {}
    ELSE {Reading(d, 0, t, total - 50), Reading(d, 1, t, 50)}

\* turbine 1 produced nothing, 90, 100 or 110 on each day of the history
Histories1 ==
    {UNION {DayReadings(d, 1, h[d]) : d \in 1..HistoryDays} :
        h \in [1..HistoryDays -> {0, 90, 100, 110}]}

\* turbine 2 produced nothing or 100 on each of the last two days
Histories2 ==
    {DayReadings(HistoryDays - 1, 2, a) \cup DayReadings(HistoryDays, 2, b) :
        a \in {0, 100}, b \in {0, 100}}

\* readings the database already holds for the target date or the day after
LaterReadings ==
    {{}, DayReadings(TargetDate, 1, 500), DayReadings(TargetDate + 1, 1, 500)}

\* the rows of day d for turbine t with the given total: none for 0, else
\* two, the first at midnight
DayRows(d, t, total) ==
    IF total = 0 THEN <<>>
    ELSE <<Row(Some(Midnight(d)), Some(t), Some(10), Some(90), Some(total - 50)),
           Row(Some(Midnight(d) + 1), Some(t), Some(10), Some(90), Some(50))>>

\* the cleaned rows of the target date
TodayRows(t, total) == DayRows(TargetDate, t, total)

TodayFrames ==
    {TodayRows(1, a) \o TodayRows(2, b) :
        a \in {0, 75, 80, 100, 120, 125}, b \in {0, 100}} \ {<<>>}

WindowChoices == {Null, Some(1), Some(2)}

InitAnomaly ==
    /\ df \in TodayFrames
    /\ \E w \in WindowChoices :
          arg = [op |-> "detect_daily_output_sum_anomalies",
                 target_date |-> TargetDate, window_days |-> w,
                 sigma_threshold |-> SIGMA_THRESHOLD]
    /\ \E h1 \in Histories1 : \E h2 \in Histories2 : \E l \in LaterReadings :
          store = [readings |-> h1 \cup h2 \cup l, summaries |-> {}, anomalies |-> {}]
    /\ out = <<>>
    /\ again = <<>>
    /\ pc = "ready"
    /\ run = NoRun

LoadHistoricalDailyTotalsStats ==
    /\ pc = "ready"
    /\ out' = [hist_stats |-> load_historical_daily_totals_stats(
                                 store.readings, arg.target_date, arg.window_days)]
    /\ pc' = "loaded"
    /\ UNCHANGED <<df, arg, again, store, run>>

DetectDailyOutputSumAnomalies ==
    /\ pc = "ready"
    /\ out' = [merged |-> Merged(store.readings, df, arg.target_date,
                                 arg.window_days, arg.sigma_threshold),
               result |-> detect_daily_output_sum_anomalies(
                              store.readings, df, arg.target_date,
                              arg.window_days, arg.sigma_threshold)]
    /\ pc' = "called"
    /\ UNCHANGED <<df, arg, again, store, run>>

NextAnomaly == LoadHistoricalDailyTotalsStats \/ DetectDailyOutputSumAnomalies

SpecAnomaly == InitAnomaly /\ [][NextAnomaly]_vars

\* the days of turbine t the baseline for the call retains: days with a
\* stored reading, before the target date and not before the window
RetainedDays(t) ==
    {d \in {DateOf(r.timestamp) : r \in {x \in store.readings : x.turbine_id = t}} :
        /\ d < arg.target_date
        /\ IsNull(arg.window_days) \/ d >= arg.target_date - Val(arg.window_days)}

\* what turbine t produced on day d according to the database
TotalOn(t, d) ==
    SumPower({r \in store.readings : r.turbine_id = t /\ DateOf(r.timestamp) = d})

RECURSIVE SumTotals(_, _)
SumTotals(t, D) ==
    IF D = {} THEN 0
    ELSE LET d == CHOOSE d \in D : TRUE
         IN TotalOn(t, d) + SumTotals(t, D \ {d})

\* the sum over the days D of (n * total - S)^2: n^2 times the sum of the
\* squared deviations from the mean S / n
RECURSIVE SumSqDev(_, _, _, _)
SumSqDev(t, D, n, S) ==
    IF D = {} THEN 0
    ELSE LET d == CHOOSE d \in D : TRUE
             e == n * TotalOn(t, d) - S
         IN e * e + SumSqDev(t, D \ {d}, n, S)

StoredTurbines == {r.turbine_id : r \in store.readings}

\* the fraction f is the number x
Is(f, x) == ~IsNull(f) /\ Val(f)[1] = x * Val(f)[2]

\* C10: load_historical_daily_totals_stats returns for a turbine with no
\* retained day no row; for a turbine with one retained day one row, with
\* that day's total as mean and a null standard deviation; for a turbine with
\* n >= 2 retained days one row with mean sum / n and a standard deviation
\* whose square is the sum of squared deviations over n - 1.  Totals 100,
\* 110, 90 give mean 100 and standard deviation 10.
C10_BaselineStats ==
    pc = "loaded" =>
       \A t \in StoredTurbines \cup {1, 2} :
          LET D == RetainedDays(t)
              n == Cardinality(D)
              S == SumTotals(t, D)
              rows == {i \in 1..Len(out.hist_stats) : out.hist_stats[i].turbine_id = t}
          IN IF n = 0 THEN rows = {}
             ELSE /\ Cardinality(rows) = 1
                  /\ LET h == out.hist_stats[CHOOSE i \in rows : TRUE]
                     IN /\ ~IsNull(h.hist_mean_daily_output)
                        /\ Val(h.hist_mean_daily_output)[1] * n
                              = S * Val(h.hist_mean_daily_output)[2]
                        /\ n = 1 => IsNull(h.hist_std_daily_output)
                        /\ n >= 2 =>
                              /\ ~IsNull(h.hist_std_daily_output)
                              /\ Val(h.hist_std_daily_output)[1] * n * n * (n - 1)
                                    = Val(h.hist_std_daily_output)[2] * SumSqDev(t, D, n, S)
                        /\ (n = 3 /\ {TotalOn(t, d) : d \in D} = {100, 110, 90}) =>
                              /\ Is(h.hist_mean_daily_output, 100)
                              /\ Is(h.hist_std_daily_output, 10 * 10)

\* turbine 1 has the three totals of the example and gets mean 100 and
\* standard deviation 10; turbine 2 has one retained day and gets a mean and
\* no standard deviation; the database holds readings of the target date
\* or later, which stay out
C10_Witness ==
    /\ pc = "loaded"
    /\ Len(out.hist_stats) = 2
    /\ {TotalOn(1, d) : d \in RetainedDays(1)} = {100, 110, 90}
    /\ Is(out.hist_stats[1].hist_mean_daily_output, 100)
    /\ Is(out.hist_stats[1].hist_std_daily_output, 100)
    /\ Cardinality(RetainedDays(2)) = 1
    /\ Is(out.hist_stats[2].hist_mean_daily_output, 100)
    /\ IsNull(out.hist_stats[2].hist_std_daily_output)
    /\ \E r \in store.readings : DateOf(r.timestamp) >= arg.target_date

\* the turbines with a row in the cleaned readings of the target date
TodayTurbines == {Val(df[i].turbine_id) : i \in 1..Len(df)}

\* what turbine t produced on the target date according to today_df
TodayTotal(t) ==
    SumSeq([i \in 1..Len(Group(df, t)) |-> Val(Group(df, t)[i].power_output)])

RowsOf(frame, t) == {i \in 1..Len(frame) : frame[i].turbine_id = t}

\* total lies more than sigma sample standard deviations from the mean of
\* turbine t's retained daily totals, on either side:
\* (total - S/n)^2 > sigma^2 * sum of squared deviations / (n - 1)
FarFromBaseline(total, t, sigma) ==
    LET D == RetainedDays(t)
        n == Cardinality(D)
        S == SumTotals(t, D)
        e == n * total - S
    IN e * e * (n - 1) > sigma * sigma * SumSqDev(t, D, n, S)

\* C7: for a turbine with a baseline (at least two retained days),
\* detect_daily_output_sum_anomalies sets is_anomaly exactly when the day's
\* total is strictly above mean + sigma * std or strictly below
\* mean - sigma * std (with mean 100, std 10 and sigma 2: exactly when it
\* is above 120 or below 80), and it returns exactly the flagged rows, in
\* their order.
C7_FlagRule ==
    pc = "called" =>
       /\ \A t \in TodayTurbines :
             /\ Cardinality(RowsOf(out.merged, t)) = 1
             /\ LET m == out.merged[CHOOSE i \in RowsOf(out.merged, t) : TRUE]
                IN /\ m.total_power_output = TodayTotal(t)
                   /\ m.date = arg.target_date
                   /\ Cardinality(RetainedDays(t)) >= 2 =>
                         (m.is_anomaly <=> FarFromBaseline(TodayTotal(t), t, arg.sigma_threshold))
                   /\ ( /\ ~IsNull(m.hist_mean_daily_output)
                        /\ ~IsNull(m.hist_std_daily_output)
                        /\ Is(m.hist_mean_daily_output, 100)
                        /\ Is(m.hist_std_daily_output, 10 * 10)
                        /\ arg.sigma_threshold = 2 ) =>
                         (m.is_anomaly <=> (TodayTotal(t) > 120 \/ TodayTotal(t) < 80))
       /\ IsSubFrame(out.result, out.merged)
       /\ \A i \in 1..Len(out.result) : out.result[i].is_anomaly
       /\ Len(out.result) = Cardinality({i \in 1..Len(out.merged) : out.merged[i].is_anomaly})

\* turbine 1 has baseline mean 100 and std 10 and a total of 125: it is
\* flagged and returned; turbine 2 has a baseline and a total on its bound:
\* it is not flagged and not returned
C7_Witness ==
    /\ pc = "called"
    /\ Len(out.merged) = 2
    /\ Is(out.merged[1].hist_mean_daily_output, 100)
    /\ Is(out.merged[1].hist_std_daily_output, 100)
    /\ out.merged[1].total_power_output = 125
    /\ out.merged[1].is_anomaly
    /\ ~IsNull(out.merged[2].hist_std_daily_output)
    /\ ~out.merged[2].is_anomaly
    /\ Len(out.result) = 1
    /\ out.result[1].turbine_id = 1

\* a total exactly on the upper bound 120 of the example is not flagged
C7_OnBoundWitness ==
    /\ pc = "called"
    /\ Is(out.merged[1].hist_mean_daily_output, 100)
    /\ Is(out.merged[1].hist_std_daily_output, 100)
    /\ out.merged[1].total_power_output = 120
    /\ ~out.merged[1].is_anomaly

\* C8: a turbine with readings on the target date and a null baseline (fewer
\* than two retained days) keeps its row in the join with null baseline
\* fields, its is_anomaly is not false, and the result holds a row for it.
C8_NullBaselineUndetermined ==
    pc = "called" =>
       \A t \in TodayTurbines :
          Cardinality(RetainedDays(t)) < 2 =>
             /\ \E i \in RowsOf(out.merged, t) :
                   /\ IsNull(out.merged[i].hist_std_daily_output)
                   /\ out.merged[i].is_anomaly # FALSE
             /\ RowsOf(out.result, t) # {}

\* the part of C8 the join does deliver: the row is there, with a null
\* standard deviation, and with a null mean when no day is retained
C8_RetainedByJoin ==
    pc = "called" =>
       \A t \in TodayTurbines :
          Cardinality(RetainedDays(t)) < 2 =>
             \E i \in RowsOf(out.merged, t) :
                /\ IsNull(out.merged[i].hist_std_daily_output)
                /\ RetainedDays(t) = {} => IsNull(out.merged[i].hist_mean_daily_output)

----------------------------------------------------------------------------
(* The pipeline: an empty database and any sequence of runs over files of
   turbine group 1. *)

File(rows) ==
    [readable |-> TRUE, columns |-> REQUIRED_COLUMNS, group_name |-> Some(1), rows |-> rows]

\* day d of turbine 1 with the given total
DayFile(d, total) == File(DayRows(d, 1, total))

\* every day of turbine 1 and the first day of turbine 2, the days in
\* descending order as a file may hold them
WholeFile ==
    File(Concat([k \in 1..HistoryDays |-> DayRows(HistoryDays + 1 - k, 1, 100)])
         \o DayRows(1, 2, 100))

\* files the run makes nothing of: one that cannot be read, one with a
\* turbine of another group, one with a null turbine_id, and one whose only
\* row of turbine 1 the cleaning drops
OddFiles ==
    {[readable |-> FALSE, columns |-> {}, group_name |-> Some(1), rows |-> <<>>],
     File(DayRows(HistoryDays, 6, 100)),
     File(<<Row(Some(Midnight(HistoryDays)), Null, Some(10), Some(90), Some(50))>>),
     File(<<Row(Some(Midnight(HistoryDays)), Some(1), Some(10), Some(90), Some(50))>>)}

\* the last day of turbine 1 and a single reading of turbine 2
MixedFile ==
    File(DayRows(HistoryDays, 1, 100)
         \o <<Row(Some(Midnight(HistoryDays) + 2), Some(2), Some(10), Some(90), Some(50))>>)

Input(file, target_date, update_existing, window_days) ==
    [file |-> file, target_date |-> target_date,
     update_existing |-> update_existing, window_days |-> window_days]

\* The calls of run_pipeline.  A day of turbine 1 with a total of 100: for
\* no target date, and for the day of the file with and without a window.
\* The last day with a total of 110: for no target date and for that day,
\* leaving stored readings alone or overwriting them.  The first day for
\* target date 2, of which it has no row.  The whole file: for no target
\* date and for day 2.  The odd files for no target date, and the file
\* cleaning leaves nothing of also for the last day.  The file with a
\* single reading of turbine 2: for no target date and for its day.
RunInputs ==
    {Input(DayFile(d, 100), Null, FALSE, Null) : d \in 1..HistoryDays}
    \cup {Input(DayFile(d, 100), Some(d), FALSE, w) :
            d \in 1..HistoryDays, w \in {Null, Some(1)}}
    \cup {Input(DayFile(HistoryDays, 110), t, u, Null) :
            t \in {Null, Some(HistoryDays)}, u \in BOOLEAN}
    \cup {Input(DayFile(1, 100), Some(2), FALSE, Null)}
    \cup {Input(WholeFile, Null, FALSE, Null)}
    \cup {Input(WholeFile, Some(2), FALSE, w) : w \in {Null, Some(1)}}
    \cup {Input(f, Null, FALSE, Null) : f \in OddFiles}
    \cup {Input(MixedFile, t, FALSE, Null) : t \in {Null, Some(HistoryDays)}}
    \cup {Input(File(<<Row(Some(Midnight(HistoryDays)), Some(1), Some(10), Some(90), Some(50))>>),
                Some(HistoryDays), FALSE, Null)}

Init ==
    /\ store = EmptyStore
    /\ run = NoRun
    /\ df = <<>>
    /\ arg = [op |-> "run_pipeline"]
    /\ out = <<>>
    /\ again = <<>>
    /\ pc = "idle"

\* what ingest makes of the file of every call: it does not depend on the
\* database, so it is the same in every state
Ingested == [i \in RunInputs |-> ingest(i.file, i.target_date)]

RunPipeline ==
    \E i \in RunInputs :
       \E r \in run_session(store, Ingested[i], i.target_date, i.update_existing,
                             i.window_days) :
          /\ store' = r.store
          /\ run' = [status |-> r.status, wrote |-> r.wrote, summary |-> r.summary,
                     anomalies |-> r.anomalies, saw |-> r.saw,
                     hist_stats |-> r.hist_stats]
          /\ arg' = [op |-> "run_pipeline", file |-> i.file,
                     target_date |-> i.target_date,
                     update_existing |-> i.update_existing,
                     window_days |-> i.window_days]
          /\ pc' = "ran"
          /\ UNCHANGED <<df, out, again>>

\* the run that follows a committed run with the same file and parameters
RunPipelineAgain ==
    /\ pc = "ran"
    /\ run.status = "committed"
    /\ \E r \in run_session(store,
                             Ingested[Input(arg.file, arg.target_date,
                                            arg.update_existing, arg.window_days)],
                             arg.target_date, arg.update_existing, arg.window_days) :
          /\ store' = r.store
          /\ run' = [status |-> r.status, wrote |-> r.wrote, summary |-> r.summary,
                     anomalies |-> r.anomalies, saw |-> r.saw,
                     hist_stats |-> r.hist_stats]
          /\ pc' = "reran"
          /\ UNCHANGED <<df, arg, out, again>>

Next == RunPipeline \/ RunPipelineAgain

Spec == Init /\ [][Next]_vars

\* the readings the run's session saw that are dated before the target date
\* and, with a window, not more than window_days days before it
DatedInWindow(readings, D, W) ==
    {r \in readings : /\ DateOf(r.timestamp) < D
                      /\ IsNull(W) \/ DateOf(r.timestamp) >= D - Val(W)}

\* C9: the baseline a run for date D loads is the per-turbine statistics of
\* the daily totals of exactly the readings dated before D and, with a
\* window W, on or after D - W, among the readings its query sees; what the
\* run itself writes is dated D, and once it is stored the readings the
\* baseline is made of are the same as before.
C9_BaselineReadings ==
    (pc = "ran" /\ ~IsNull(run.hist_stats)) =>
       LET D == Val(arg.target_date)
           used == DatedInWindow(run.saw, D, arg.window_days)
       IN /\ Val(run.hist_stats) = TurbineStats(DailyTotals(used))
          /\ \A r \in run.wrote : DateOf(r.timestamp) = D
          /\ run.status = "committed" =>
                /\ \A r \in run.wrote : \E x \in store.readings : SameReading(x, r)
                /\ DatedInWindow(store.readings, D, arg.window_days) = used

\* a committed run for D has written readings of D, one of them at midnight,
\* into a database that also holds a later day and an earlier one; its
\* baseline has a row
C9_Witness ==
    /\ pc = "ran"
    /\ run.status = "committed"
    /\ ~IsNull(run.hist_stats)
    /\ Len(Val(run.hist_stats)) = 1
    /\ \E r \in run.wrote : r.timestamp = Midnight(Val(arg.target_date))
    /\ \E r \in store.readings : r.timestamp = Midnight(Val(arg.target_date))
    /\ \E r \in run.saw : DateOf(r.timestamp) > Val(arg.target_date)
    /\ \E r \in run.saw : DateOf(r.timestamp) < Val(arg.target_date)

\* the window leaves a stored day out and keeps the reading at midnight of
\* D - W
C9_WindowWitness ==
    /\ pc = "ran"
    /\ ~IsNull(run.hist_stats)
    /\ ~IsNull(arg.window_days)
    /\ Len(Val(run.hist_stats)) = 1
    /\ \E r \in run.saw : DateOf(r.timestamp) < Val(arg.target_date) - Val(arg.window_days)
    /\ \E r \in run.saw :
          r.timestamp = Midnight(Val(arg.target_date) - Val(arg.window_days))

----------------------------------------------------------------------------
(* calculate_daily_summary on its own, on cleaned frames: rows without a
   null cell, at midnight and in the last slot of one day and at midnight of
   the next. *)

MaxSummaryRows == 3

SummaryRows ==
    {Row(Some(ts), Some(t), Some(10), Some(90), Some(po)) :
        ts \in {Midnight(1), Midnight(2) - 1, Midnight(2)}, t \in {1, 2},
        po \in {0, 50, 100}}

InitSummary ==
    /\ df \in SeqsUpTo(SummaryRows, MaxSummaryRows)
    /\ arg = [op |-> "calculate_daily_summary"]
    /\ out = <<>>
    /\ again = <<>>
    /\ pc = "ready"
    /\ Idle

CalculateDailySummary ==
    /\ pc = "ready"
    /\ out' = [summary |-> calculate_daily_summary(df)]
    /\ pc' = "called"
    /\ UNCHANGED <<df, arg, again, store, run>>

NextSummary == CalculateDailySummary

SpecSummary == InitSummary /\ [][NextSummary]_vars

\* the rows of frame d of turbine t on date day
OnDay(d, day, t) ==
    {i \in 1..Len(d) : DateOf(Val(d[i].timestamp)) = day /\ Val(d[i].turbine_id) = t}

RECURSIVE SumPowerAt(_, _)
SumPowerAt(d, I) ==
    IF I = {} THEN 0
    ELSE LET i == CHOOSE i \in I : TRUE
         IN Val(d[i].power_output) + SumPowerAt(d, I \ {i})

\* s is the summary of the rows I of frame d: its minimum is one of their
\* power_output values and none is below it, likewise the maximum, and its
\* mean is their sum over their number
Summarises(s, d, I) ==
    /\ \E i \in I : Val(d[i].power_output) = s.min_power_output
    /\ \A i \in I : Val(d[i].power_output) >= s.min_power_output
    /\ \E i \in I : Val(d[i].power_output) = s.max_power_output
    /\ \A i \in I : Val(d[i].power_output) <= s.max_power_output
    /\ s.mean_power_output[1] * Cardinality(I) = SumPowerAt(d, I) * s.mean_power_output[2]

\* C11: calculate_daily_summary returns one row for every (date, turbine_id)
\* pair of its input and no other, and the row holds the minimum, maximum
\* and mean of power_output over exactly the input rows of that pair.
C11_DailySummary ==
    pc = "called" =>
       /\ \A i \in 1..Len(df) :
             Cardinality({k \in 1..Len(out.summary) :
                 /\ out.summary[k].date = DateOf(Val(df[i].timestamp))
                 /\ out.summary[k].turbine_id = Val(df[i].turbine_id)}) = 1
       /\ \A k \in 1..Len(out.summary) :
             LET I == OnDay(df, out.summary[k].date, out.summary[k].turbine_id)
             IN I # {} /\ Summarises(out.summary[k], df, I)

\* turbine 1 has two rows of different power on one date, the second in the
\* last slot of the day; the frame also holds a row of the next date and the
\* summary has a row for each pair
C11_Witness ==
    /\ pc = "called"
    /\ Len(df) = 3
    /\ Len(out.summary) = 2
    /\ \E k \in 1..2 :
          /\ out.summary[k].min_power_output < out.summary[k].max_power_output
          /\ Cardinality(OnDay(df, out.summary[k].date, out.summary[k].turbine_id)) = 2
          /\ \E i \in OnDay(df, out.summary[k].date, out.summary[k].turbine_id) :
                Val(df[i].timestamp) = Midnight(out.summary[k].date + 1) - 1
    /\ out.summary[1].date # out.summary[2].date

----------------------------------------------------------------------------
(* read_and_validate_csv on its own: files that can or cannot be read, with
   or without a required column, named for a group, for no group or for a
   group that is not configured, and rows with null cells, text cells and
   turbines inside and outside group 1. *)

MaxReaderRows == 2

ReaderRows ==
    {Row(ts, tid, ws, Some(90), Some(50)) :
        ts \in {Some(2), Some(1), Text},
        tid \in {Some(1), Some(5), Some(6), Null},
        ws \in {Some(10), Null, Text}}

ReaderFiles ==
    {[readable |-> TRUE, columns |-> c[1], group_name |-> c[2], rows |-> rows] :
        c \in {<<REQUIRED_COLUMNS, Some(1)>>,
               <<REQUIRED_COLUMNS, Null>>,
               <<REQUIRED_COLUMNS, Some(4)>>,
               <<REQUIRED_COLUMNS \ {"timestamp"}, Some(1)>>,
               <<REQUIRED_COLUMNS \ {"power_output"}, Some(1)>>},
        rows \in SeqsUpTo(ReaderRows, MaxReaderRows)}
    \cup {[readable |-> FALSE, columns |-> {}, group_name |-> Some(1), rows |-> <<>>]}

InitReader ==
    /\ \E file \in ReaderFiles : arg = [op |-> "read_and_validate_csv", file |-> file]
    /\ df = <<>>
    /\ out = <<>>
    /\ again = <<>>
    /\ pc = "ready"
    /\ Idle

ReadAndValidateCsv ==
    /\ pc = "ready"
    /\ ~ReadRaises(arg.file)
    /\ out' = [value |-> read_and_validate_csv(arg.file)]
    /\ pc' = "returned"
    /\ UNCHANGED <<df, arg, again, store, run>>

ReadAndValidateCsvRaises ==
    /\ pc = "ready"
    /\ ReadRaises(arg.file)
    /\ pc' = "raised"
    /\ UNCHANGED <<df, arg, out, again, store, run>>

NextReader == ReadAndValidateCsv \/ ReadAndValidateCsvRaises

SpecReader == InitReader /\ [][NextReader]_vars

\* the cell can be given the type of its column: no text, and a turbine_id
\* is there
Coercible(r) ==
    /\ ~IsText(r.timestamp)
    /\ ~IsNull(r.turbine_id) /\ ~IsText(r.turbine_id)
    /\ \A c \in SensorSet : ~IsText(r[c])

\* the file is readable, has every required column, every cell is coercible
\* and every turbine_id is in the inclusive range of the file's group
ValidFile(file) ==
    /\ file.readable
    /\ REQUIRED_COLUMNS \subseteq file.columns
    /\ \A i \in 1..Len(file.rows) : Coercible(file.rows[i])
    /\ ~IsNull(file.group_name)
    /\ Val(file.group_name) \in {1, 2, 3}
    /\ \A i \in 1..Len(file.rows) :
          /\ Val(file.rows[i].turbine_id) >= 5 * Val(file.group_name) - 4
          /\ Val(file.rows[i].turbine_id) <= 5 * Val(file.group_name)

\* d holds the rows of e, each as often
SameRows(d, e) ==
    /\ Len(d) = Len(e)
    /\ \A r \in Rows(d) \cup Rows(e) :
          Cardinality({i \in 1..Len(d) : d[i] = r}) = Cardinality({i \in 1..Len(e) : e[i] = r})

\* C12: read_and_validate_csv never raises; it returns the complete batch
\* when the file is readable, has the required columns, coercible cells and
\* turbine ids within its group's range, and None in every other case.
C12_BatchOrNone ==
    pc # "ready" =>
       /\ pc = "returned"
       /\ IF ValidFile(arg.file)
          THEN ~IsNull(out.value) /\ SameRows(Val(out.value), arg.file.rows)
          ELSE IsNull(out.value)

\* the part of C12 the code delivers: when it returns, it returns the
\* complete batch for a valid file and None for any other, and turbines of
\* the group that are absent do not matter
C12_WhenItReturns ==
    pc = "returned" =>
       IF ValidFile(arg.file)
       THEN ~IsNull(out.value) /\ SameRows(Val(out.value), arg.file.rows)
       ELSE IsNull(out.value)

\* it raises only on a file it cannot read, a file without the timestamp
\* column, or a group that is not configured
C12_WhenItRaises ==
    pc = "raised" =>
       \/ ~arg.file.readable
       \/ "timestamp" \notin arg.file.columns
       \/ ~IsNull(arg.file.group_name) /\ Val(arg.file.group_name) \notin {1, 2, 3}

\* a valid file with two rows out of order and turbines 2, 3, 4 absent is
\* returned whole
C12_ReturnsWitness ==
    /\ pc = "returned"
    /\ ~IsNull(out.value)
    /\ Len(Val(out.value)) = 2
    /\ Val(out.value) # arg.file.rows
    /\ TurbineIds(Val(out.value)) = {1, 5}

\* every row the run handed to a write is stored under its key, and every
\* stored row was stored before or has the key of a row the run handed over
AllWritesVisible ==
    /\ \A r \in run'.wrote : \E x \in store'.readings : SameReading(x, r)
    /\ \A r \in run'.summary : \E x \in store'.summaries : SameDay(x, r)
    /\ \A r \in run'.anomalies : \E x \in store'.anomalies : SameDay(x, r)
    /\ \A x \in store'.readings \ store.readings : x \in run'.wrote
    /\ \A x \in store'.summaries \ store.summaries : x \in run'.summary
    /\ \A x \in store'.anomalies \ store.anomalies : x \in run'.anomalies

\* C13: a run that does not commit (validation failed, the file had no row
\* of the target date, a write or the baseline load failed, or the run
\* raised) leaves the database as it was; a run that commits makes all the
\* rows it handed to the three writes visible in the one step of the commit.
C13_AllOrNothing ==
    [][IF run'.status = "committed" THEN AllWritesVisible ELSE store' = store]_vars

\* the anomaly insert has failed after the readings and the summary of the
\* run were written in the session: none of them is in the database, which
\* still holds what earlier runs stored
C13_Witness ==
    /\ pc = "ran"
    /\ run.status = "anomaly insert failed"
    /\ run.wrote # {}
    /\ run.summary # {}
    /\ run.anomalies # {}
    /\ \A r \in run.wrote : ~\E x \in store.readings : SameReading(x, r)
    /\ \A r \in run.summary : ~\E x \in store.summaries : SameDay(x, r)
    /\ store.readings # {}

\* a committed run has made readings, a summary and an anomaly visible
C13_CommitWitness ==
    /\ pc = "ran"
    /\ run.status = "committed"
    /\ \E r \in run.wrote : r \in store.readings
    /\ \E r \in run.summary : r \in store.summaries
    /\ \E r \in run.anomalies : r \in store.anomalies

\* at most one reading per (timestamp, turbine_id), one summary and one
\* anomaly per (turbine_id, date)
UniqueKeys(st) ==
    /\ \A a, b \in st.readings : SameReading(a, b) => a = b
    /\ \A a, b \in st.summaries : SameDay(a, b) => a = b
    /\ \A a, b \in st.anomalies : SameDay(a, b) => a = b

\* C14: the run that follows a committed run with the same file, target
\* date and parameters leaves every table as it is, and after every run the
\* database holds at most one reading per (timestamp, turbine_id) and at
\* most one summary and one anomaly per (turbine_id, date).
C14_RerunSafe ==
    [][(pc' = "reran" => store' = store) /\ UniqueKeys(store')]_vars

\* the second of two equal runs has committed: it handed over readings, to
\* overwrite the stored ones, a summary and an anomaly
C14_Witness ==
    /\ pc = "reran"
    /\ run.status = "committed"
    /\ arg.update_existing
    /\ run.wrote # {}
    /\ run.wrote \subseteq store.readings
    /\ run.summary # {}
    /\ run.anomalies # {}
    /\ run.anomalies \subseteq store.anomalies

\* the stored readings of the turbine and date of summary s
ReadingsOf(s) ==
    {r \in store.readings : r.turbine_id = s.turbine_id /\ DateOf(r.timestamp) = s.date}

\* C15: every stored daily summary holds the minimum, maximum and mean of
\* power_output over the readings stored for its turbine and date.
C15_SummaryOfStoredReadings ==
    \A s \in store.summaries :
       LET R == ReadingsOf(s)
       IN /\ R # {}
          /\ s.min_power_output = Min({r.power_output : r \in R})
          /\ s.max_power_output = Max({r.power_output : r \in R})
          /\ s.mean_power_output[1] * Cardinality(R) = SumPower(R) * s.mean_power_output[2]

\* what the code does deliver: a stored summary is the summary of the rows
\* of the first committed run that carried its turbine and date, so that its
\* turbine and date have stored readings
C15_SummaryHasReadings ==
    \A s \in store.summaries : ReadingsOf(s) # {}

----------------------------------------------------------------------------
(* One-row partitions of detect_and_handle_outliers_statistically_std *)

\* the turbines with exactly one row in d
SingleRowTurbines(d) == {t \in TurbineIds(d) : Len(Group(d, t)) = 1}

\* C16: in detect_and_handle_outliers_statistically_std a turbine partition
\* of exactly one row has no sample standard deviation and its row is an
\* outlier: "drop" removes the row, so that the turbine has no row in the
\* result, and "flag" marks the row is_outlier.
C16_SingleRowPartition ==
    (pc = "called" /\ arg.op = "detect_and_handle_outliers_statistically_std") =>
       \A i \in 1..Len(df) :
          LET t == Val(df[i].turbine_id)
          IN t \in SingleRowTurbines(df) =>
                /\ StdIsNull(GroupStats(Group(df, t)))
                /\ arg.action = "drop" =>
                      /\ df[i] \notin Rows(out)
                      /\ t \notin TurbineIds(out)
                /\ arg.action = "flag" =>
                      /\ out[i].row = df[i]
                      /\ out[i].is_outlier

\* the only row of turbine 2 is dropped while rows of turbine 1 stay
C16_Witness ==
    /\ pc = "called"
    /\ arg.op = "detect_and_handle_outliers_statistically_std"
    /\ arg.action = "drop"
    /\ SingleRowTurbines(df) = {2}
    /\ TurbineIds(df) = {1, 2}
    /\ TurbineIds(out) = {1}
    /\ Len(out) = Len(df) - 1

\* the only row of turbine 2 is flagged while no row of turbine 1 is
C16_FlagWitness ==
    /\ pc = "called"
    /\ arg.op = "detect_and_handle_outliers_statistically_std"
    /\ arg.action = "flag"
    /\ SingleRowTurbines(df) = {2}
    /\ TurbineIds(df) = {1, 2}
    /\ \A i \in 1..Len(out) : out[i].is_outlier <=> out[i].row.turbine_id = Some(2)

\* the batch of the recorded run as it reaches the outlier stage
BatchBeforeOutliers ==
    LET v == Val(read_and_validate_csv(arg.file))
        today == IF IsNull(arg.target_date) THEN v
                 ELSE filter_today_data(v, Val(arg.target_date))
    IN Stages(today, SENSOR_LIMITS).limits

\* the consequence of C16 for a run: a turbine with one row in the batch that
\* reaches the outlier stage gets no reading, no summary and no anomaly from
\* that run
C16_NothingForSingleRowTurbine ==
    (pc \in {"ran", "reran"} /\ run.status = "committed") =>
       \A t \in SingleRowTurbines(BatchBeforeOutliers) :
          /\ \A r \in run.wrote : r.turbine_id # t
          /\ \A r \in run.summary : r.turbine_id # t
          /\ \A r \in run.anomalies : r.turbine_id # t

\* a committed run over a file with two readings of turbine 1 and one of
\* turbine 2 writes the readings and the summary of turbine 1 only
C16_RunWitness ==
    /\ pc = "ran"
    /\ run.status = "committed"
    /\ SingleRowTurbines(BatchBeforeOutliers) = {2}
    /\ {r.turbine_id : r \in run.wrote} = {1}
    /\ {r.turbine_id : r \in run.summary} = {1}

----------------------------------------------------------------------------
(* The fill before the limits in clean_data *)

\* the rows of the deduplicated batch with a key and a missing cell in c
MissingIn(c) == {r \in Rows(out.dedup) : HasKey(r) /\ IsNull(r[c])}

\* the missing cell c of r is filled from an observation
IsFilled(r, c) == ~IsNull(Filled(out.dedup, r, c))

\* C17: clean_data fills before it enforces the physical limits.  A missing
\* sensor value that is filled from the last preceding observation of its
\* turbine takes that observation's value; when the value is outside its
\* physical range the filled row is dropped by the limits together with the
\* observation's row; a row that had a missing value is in the cleaned batch
\* only if the value was filled from an observation within its range.
C17_FillBeforeLimits ==
    (pc \in {"called", "recalled"} /\ arg.op = "clean_data") =>
       \A c \in SensorSet : \A r \in MissingIn(c) :
          /\ IsFilled(r, c) =>
                LET q == LastObserved(out.dedup, r, c)
                IN /\ \A m \in Rows(out.missing) : Key(m) = Key(r) => m[c] = q[c]
                   /\ (\A c2 \in SensorSet : IsFilled(r, c2) \/ ~IsNull(r[c2]))
                         => Key(r) \in KeysOf(out.missing)
                   /\ (c \in DOMAIN arg.sensor_limits
                          /\ ~InRange(q[c], arg.sensor_limits[c])) =>
                         /\ Key(r) \notin KeysOf(out.limits)
                         /\ Key(q) \notin KeysOf(out.limits)
                         /\ Key(r) \notin KeysOf(out.outliers)
          /\ Key(r) \in KeysOf(out.outliers) =>
                /\ IsFilled(r, c)
                /\ c \in DOMAIN arg.sensor_limits =>
                      InRange(LastObserved(out.dedup, r, c)[c], arg.sensor_limits[c])

\* a missing wind speed is filled from an observation below the range and
\* its row goes with the observation's row, while other rows are kept
C17_Witness ==
    /\ pc = "called"
    /\ arg.op = "clean_data"
    /\ \E r \in MissingIn("wind_speed") :
          /\ IsFilled(r, "wind_speed")
          /\ ~InRange(LastObserved(out.dedup, r, "wind_speed")["wind_speed"],
                      arg.sensor_limits["wind_speed"])
          /\ \E m \in Rows(out.missing) :
                /\ Key(m) = Key(r)
                /\ m["wind_speed"] = LastObserved(out.dedup, r, "wind_speed")["wind_speed"]
          /\ Key(r) \notin KeysOf(out.limits)
    /\ out.outliers # <<>>

\* a missing wind speed filled from an observation within its range is kept
C17_KeptWitness ==
    /\ pc = "called"
    /\ arg.op = "clean_data"
    /\ \E r \in MissingIn("wind_speed") :
          /\ IsFilled(r, "wind_speed")
          /\ InRange(LastObserved(out.dedup, r, "wind_speed")["wind_speed"],
                     arg.sensor_limits["wind_speed"])
          /\ Key(r) \in KeysOf(out.outliers)

====
